---------------------------- MODULE Spec2Model ----------------------------
(***************************************************************************)
(* Multi-provider inference orchestration of doc_intel_pipeline:           *)
(*   src/src/orchestrator.py        ValidationAgent, LLMOrchestrator       *)
(*   src/src/orchestrator_tier3.py  FieldMerger, Tier3Orchestrator         *)
(*   src/src/classifier_orchestrated.py  DocumentClassifier                *)
(*   src/src/extractor_orchestrated.py   FieldExtractor                    *)
(*                                                                         *)
(* The specifications of this module share its variables:                  *)
(*   Spec          the sequential fallback orchestrator (LLMOrchestrator)  *)
(*   SpecLive      Spec with the fairness of the orchestrator's own steps  *)
(*   SpecEnsemble  the parallel ensemble orchestrator (Tier3Orchestrator)  *)
(*   SpecMerge     FieldMerger.merge_extractions as a function of its      *)
(*                 argument                                                *)
(*   SpecAdapter   a provider adapter reading one raw reply                *)
(*   SpecBatch     DocumentClassifier.batch_classify over the fallback     *)
(*                 orchestrator                                            *)
(*   SpecExtract   FieldExtractor.extract over the fallback orchestrator   *)
(***************************************************************************)
EXTENDS Integers, Sequences, FiniteSets, TLC

VARIABLES
    \* ---- LLMOrchestrator (orchestrator.py) ----
    providers,      \* self.providers: the priority list
    clients,        \* self.clients: the provider ids that were initialised
    pc,             \* position of the running *_with_fallback call
    task,           \* "classify" | "extract"
    text,           \* the document text of the request
    idx,            \* position of the for loop in self.providers
    invoked,        \* the positions in self.providers invoked so far, in order
    reply,          \* what the provider invoked last gave: a value or an exception
    judged,         \* what the judge call of validate_extraction gave, if made
    verdicts,       \* per invoked provider: "error", "rejected" or "accepted"
    inflight,       \* remote calls in flight: provider ids and "judge"
    outcome,        \* what the call gave its caller
    \* ---- Tier3Orchestrator (orchestrator_tier3.py) ----
    t3_clients,     \* self.clients
    epc,            \* position of the running ensemble call
    etask,          \* "extract" | "classify"
    futures,        \* per submitted provider task: its state and outcome
    results,        \* the local list results / classifications
    providers_used, \* the local list providers_used
    eoutcome,       \* what the call gave its caller
    extraction_history, \* self.extraction_history
    \* ---- FieldMerger.merge_extractions as a function ----
    mpc,            \* "in" | "out"
    minput,         \* the argument: a list of result mappings
    mout,           \* the value returned, or the exception raised
    \* ---- a provider adapter reading one raw reply ----
    apc,            \* "in" | "out"
    aprovider,      \* the provider whose branch of _classify_single /
                    \* _extract_single runs
    raw,            \* the raw text of the provider's reply
    aout,           \* the parsed value returned, or the exception raised
    \* ---- DocumentClassifier.batch_classify (classifier_orchestrated.py) ----
    bpc,            \* position of the batch_classify call
    documents,      \* the argument: a list of document mappings
    bpos,           \* the document the loop stands at (1-based)
    batch_results,  \* the local list results
    \* ---- FieldExtractor.extract (extractor_orchestrated.py) ----
    xpc,            \* position of the extract call
    xdoc_type,      \* the argument doc_type
    xout            \* the value returned, or the exception raised

fbVars == <<providers, clients, pc, task, text, idx, invoked, reply, judged,
            verdicts, inflight, outcome>>
t3Vars == <<t3_clients, epc, etask, futures, results, providers_used, eoutcome,
            extraction_history>>
mgVars == <<mpc, minput, mout>>
adVars == <<apc, aprovider, raw, aout>>
feVars == <<bpc, documents, bpos, batch_results, xpc, xdoc_type, xout>>
auxVars == <<adVars, feVars>>
vars == <<fbVars, t3Vars, mgVars, auxVars>>

-----------------------------------------------------------------------------
(***************************************************************************)
(* JSON values as json.loads gives them.  A number is the rational n/d in  *)
(* lowest terms (true division of small integers is exact to the printed   *)
(* value); a list keeps its order and its duplicates; an object (dict) is  *)
(* opaque and, like a list, unhashable.                                    *)
(***************************************************************************)
Null == [t |-> "null"]
Num(n) == [t |-> "num", n |-> n, d |-> 1]
Str(s) == [t |-> "str", s |-> s]
Bool(b) == [t |-> "bool", b |-> b]
List(items) == [t |-> "list", items |-> items]
Obj == [t |-> "obj"]
\* an object different from Obj
OtherObj == [t |-> "obj", id |-> 2]

RECURSIVE GCD(_, _)
GCD(a, b) == IF b = 0 THEN a ELSE GCD(b, a % b)

\* a / b for integers a >= 0, b > 0, as the value Python's true division gives
Div(a, b) ==
    LET g == GCD(a, b)
    IN  [t |-> "num", n |-> a \div g, d |-> b \div g]

\* isinstance(v, (int, float)): bool is a subclass of int
IsNumber(v) == v.t \in {"num", "bool"}

\* what a value adds to sum(values)
Addend(v) ==
    IF v.t = "num" THEN v.n
    ELSE IF v.t = "bool" THEN (IF v.b THEN 1 ELSE 0)
    ELSE 0

\* hash(v) succeeds: lists and dicts are unhashable
Hashable(v) == v.t \in {"null", "num", "str", "bool"}

Range(s) == {s[i] : i \in 1..Len(s)}

RECURSIVE SumSeq(_)
SumSeq(s) == IF s = <<>> THEN 0 ELSE Addend(Head(s)) + SumSeq(Tail(s))

RECURSIVE Flatten(_)
Flatten(ss) == IF ss = <<>> THEN <<>> ELSE Head(ss) \o Flatten(Tail(ss))

\* the sequences that hold each element of the finite set S exactly once
Perms(S) ==
    {p \in [1..Cardinality(S) -> S] : \A x \in S : \E i \in DOMAIN p : p[i] = x}

\* r.get(key)
Get(r, key) == IF key \in DOMAIN r THEN r[key] ELSE Null

EmptyDict == [k \in {} |-> Null]

Returned(v) == [kind |-> "return", val |-> v]
Raised(e) == [kind |-> "raise", exc |-> e]

-----------------------------------------------------------------------------
(***************************************************************************)
(* FieldMerger.merge_extractions (orchestrator_tier3.py:28-84).            *)
(* list(set(...)) fixes no order, so each operator gives the SET of the    *)
(* outcomes a call can have: values returned, or the exception raised.     *)
(***************************************************************************)

\* values = [r.get(key) for r in results if r.get(key) is not None]
ValuesOf(rs, key) ==
    LET sel == SelectSeq(rs, LAMBDA r : Get(r, key).t # "null")
    IN  [i \in 1..Len(sel) |-> Get(sel[i], key)]

Count(vs, v) == Cardinality({i \in 1..Len(vs) : vs[i] = v})

\* Counter(vs).most_common(1)[0][0]: the greatest count; among equal counts
\* the value that occurs first (Counter keeps insertion order)
MostCommon(vs) ==
    LET first == CHOOSE i \in 1..Len(vs) :
                     /\ \A j \in 1..Len(vs) : Count(vs, vs[j]) <= Count(vs, vs[i])
                     /\ \A j \in 1..(i - 1) : Count(vs, vs[j]) < Count(vs, vs[i])
    IN  vs[first]

\* sum(values) / len(values): int + str, int + list, int + dict raise TypeError
MergeNumeric(values) ==
    IF \A i \in 1..Len(values) : IsNumber(values[i])
    THEN {Returned(Div(SumSeq(values), Len(values)))}
    ELSE {Raised("TypeError")}

\* list(set(all_items)), all_items the items of every contribution that is a
\* list: set() raises TypeError on an unhashable item
MergeList(values) ==
    LET lists == SelectSeq(values, LAMBDA v : v.t = "list")
        all_items == Flatten([i \in 1..Len(lists) |-> lists[i].items])
    IN  IF \E i \in 1..Len(all_items) : ~Hashable(all_items[i])
        THEN {Raised("TypeError")}
        ELSE {Returned(List(p)) : p \in Perms(Range(all_items))}

\* Counter(values).most_common(1)[0][0]: Counter raises TypeError on an
\* unhashable value
MergeString(values) ==
    IF \E i \in 1..Len(values) : ~Hashable(values[i])
    THEN {Raised("TypeError")}
    ELSE {Returned(MostCommon(values))}

\* the body of the loop over all_keys, for the non-null values of one key
MergeField(values) ==
    IF values = <<>> THEN {Returned(Null)}
    ELSE LET sample_value == values[1]
         IN  IF IsNumber(sample_value) THEN MergeNumeric(values)
             ELSE IF sample_value.t = "list" THEN MergeList(values)
             ELSE IF sample_value.t = "str" THEN MergeString(values)
             ELSE {Returned(values[1])}

\* MergeAll leaving out the keys for which no result has a non-null value
MergeAllDropEmpty(rs) ==
    LET all_keys == {k \in UNION {DOMAIN rs[i] : i \in 1..Len(rs)} :
                        ValuesOf(rs, k) # <<>>}
        per(key) == MergeField(ValuesOf(rs, key))
        vals == UNION {{o.val : o \in {q \in per(key) : q.kind = "return"}} : key \in all_keys}
    IN  IF \E key \in all_keys : \E o \in per(key) : o.kind = "raise"
        THEN {Raised("TypeError")}
        ELSE {Returned(m) : m \in {f \in [all_keys -> vals] :
                                    \A key \in all_keys : Returned(f[key]) \in per(key)}}

\* the general path: union of the keys, then one merged value per key
MergeAll(rs) ==
    LET all_keys == UNION {DOMAIN rs[i] : i \in 1..Len(rs)}
        per(key) == MergeField(ValuesOf(rs, key))
        vals == UNION {{o.val : o \in {q \in per(key) : q.kind = "return"}} : key \in all_keys}
    IN  IF \E key \in all_keys : \E o \in per(key) : o.kind = "raise"
        THEN {Raised("TypeError")}
        ELSE {Returned(m) : m \in {f \in [all_keys -> vals] :
                                    \A key \in all_keys : Returned(f[key]) \in per(key)}}

\* merge_extractions without the shortcut for a single result
merge_extractions_general(rs) ==
    IF rs = <<>> THEN {Returned(EmptyDict)} ELSE MergeAll(rs)

merge_extractions(rs) ==
    IF rs = <<>> THEN {Returned(EmptyDict)}
    ELSE IF Len(rs) = 1 THEN {Returned(rs[1])}
    ELSE MergeAll(rs)

-----------------------------------------------------------------------------
(***************************************************************************)
(* Bounds and input domains.                                               *)
(***************************************************************************)
MaxResults == 3     \* the longest list handed to merge_extractions

FieldValues ==
    { Null, Num(10), Num(20), Num(30), Str("invoice"), Str("contract"),
      List(<<Str("a"), Str("b")>>), List(<<Str("b"), Str("c")>>),
      List(<<Str("a"), Str("a")>>), List(<<Obj>>), Obj, OtherObj, Bool(TRUE),
      Bool(FALSE) }

\* result mappings over the field names "f" and "g"
MergeResults ==
    {[f |-> v] : v \in FieldValues}
        \cup { EmptyDict, [g |-> Str("x")], [f |-> Num(10), g |-> Null],
               [f |-> Null, g |-> Null] }

MergeInputs == UNION {[1..n -> MergeResults] : n \in 0..MaxResults}

NoValue == [kind |-> "none"]

-----------------------------------------------------------------------------
(***************************************************************************)
(* SpecMerge: merge_extractions applied to one argument.                   *)
(***************************************************************************)
mgInit ==
    /\ mpc = "in"
    /\ minput \in MergeInputs
    /\ mout = NoValue

mgOff ==
    /\ mpc = "off"
    /\ minput = <<>>
    /\ mout = NoValue

Merge ==
    /\ mpc = "in"
    /\ mout' \in merge_extractions(minput)
    /\ mpc' = "out"
    /\ UNCHANGED minput
    /\ UNCHANGED <<fbVars, t3Vars, auxVars>>

-----------------------------------------------------------------------------
(***************************************************************************)
(* ValidationAgent (orchestrator.py:23-112).                               *)
(* A text is the sequence of its characters; a confidence or a quality     *)
(* score is an integer number of hundredths (0.7 is 70).                   *)
(***************************************************************************)
UpperLetters == <<"A","B","C","D","E","F","G","H","I","J","K","L","M",
                  "N","O","P","Q","R","S","T","U","V","W","X","Y","Z">>
LowerLetters == <<"a","b","c","d","e","f","g","h","i","j","k","l","m",
                  "n","o","p","q","r","s","t","u","v","w","x","y","z">>

LowerChar(c) ==
    IF \E i \in 1..Len(UpperLetters) : UpperLetters[i] = c
    THEN LowerLetters[CHOOSE i \in 1..Len(UpperLetters) : UpperLetters[i] = c]
    ELSE c

\* text.lower()
Lower(tx) == [i \in 1..Len(tx) |-> LowerChar(tx[i])]

\* k in tx: k occurs in tx as a substring
Contains(k, tx) ==
    \E i \in 0..(Len(tx) - Len(k)) : \A j \in 1..Len(k) : tx[i + j] = k[j]

\* keywords = ["invoice", "bill", "payment", "total", "amount", "$"]
InvoiceKeywords ==
    { <<"i","n","v","o","i","c","e">>, <<"b","i","l","l">>,
      <<"p","a","y","m","e","n","t">>, <<"t","o","t","a","l">>,
      <<"a","m","o","u","n","t">>, <<"$">> }

ConfidenceThreshold == 70   \* confidence < 0.7
MinFields == 3              \* len(extracted_data) < 3
QualityThreshold == 60      \* quality_score > 0.6

\* validate_classification with the threshold itself rejected
validate_classification_above(tx, classification, confidence) ==
    IF confidence <= ConfidenceThreshold THEN FALSE
    ELSE IF classification = Str("unknown") THEN FALSE
    ELSE IF classification = Str("invoice")
         THEN \E k \in InvoiceKeywords : Contains(k, Lower(tx))
    ELSE TRUE

\* validate_classification: is_valid of the pair it returns
validate_classification(tx, classification, confidence) ==
    IF confidence < ConfidenceThreshold THEN FALSE
    ELSE IF classification = Str("unknown") THEN FALSE
    ELSE IF classification = Str("invoice")
         THEN \E k \in InvoiceKeywords : Contains(k, Lower(tx))
    ELSE TRUE

\* bool(v)
Truthy(v) ==
    CASE v.t = "null" -> FALSE
      [] v.t = "bool" -> v.b
      [] v.t = "num" -> v.n # 0
      [] v.t = "str" -> v.s # ""
      [] v.t = "list" -> v.items # <<>>
      [] OTHER -> TRUE

\* not extracted_data or len(extracted_data) < 3
TooFewFields(extracted_data) ==
    extracted_data = EmptyDict \/ Cardinality(DOMAIN extracted_data) < MinFields

\* a numeric judge field in hundredths (True is 1.0)
Hundredths(v) == IF v.t = "bool" THEN (IF v.b THEN 100 ELSE 0) ELSE v.n

\* JudgeVerdict with quality_score >= 0.6 for quality_score > 0.6
JudgeVerdictAtLeast(j) ==
    IF j.kind = "raise" THEN TRUE
    ELSE LET is_valid == IF "is_valid" \in DOMAIN j.val
                         THEN j.val["is_valid"] ELSE Bool(FALSE)
             quality_score == IF "quality_score" \in DOMAIN j.val
                              THEN j.val["quality_score"] ELSE Num(0)
         IN  IF ~IsNumber(quality_score) THEN TRUE
             ELSE Truthy(is_valid) \/ Hundredths(quality_score) >= QualityThreshold

\* JudgeVerdict with the except clause rejecting: a failed judge call blocks
JudgeVerdictStrict(j) ==
    IF j.kind = "raise" THEN FALSE
    ELSE LET is_valid == IF "is_valid" \in DOMAIN j.val
                         THEN j.val["is_valid"] ELSE Bool(FALSE)
             quality_score == IF "quality_score" \in DOMAIN j.val
                              THEN j.val["quality_score"] ELSE Num(0)
         IN  IF ~IsNumber(quality_score) THEN FALSE
             ELSE Truthy(is_valid) \/ Hundredths(quality_score) > QualityThreshold

\* lines 90-112: the verdict once the judge call has ended, j its outcome.
\* An exception anywhere in the try block (the call, json.loads, formatting
\* a quality_score that is no number with :.2f) gives (True, ...).
JudgeVerdict(j) ==
    IF j.kind = "raise" THEN TRUE
    ELSE LET is_valid == IF "is_valid" \in DOMAIN j.val
                         THEN j.val["is_valid"] ELSE Bool(FALSE)
             quality_score == IF "quality_score" \in DOMAIN j.val
                              THEN j.val["quality_score"] ELSE Num(0)
         IN  IF ~IsNumber(quality_score) THEN TRUE
             ELSE Truthy(is_valid) \/ Hundredths(quality_score) > QualityThreshold

-----------------------------------------------------------------------------
(***************************************************************************)
(* LLMOrchestrator (orchestrator.py:115-354): the fallback loop.           *)
(***************************************************************************)
ProviderIds == {"openai", "gemini", "ollama"}
MaxProviders == 3   \* the longest priority list

\* providers or MODEL_PRIORITY: the list is never empty; it may repeat an id
ProviderLists == UNION {[1..n -> ProviderIds] : n \in 1..MaxProviders}

\* how an adapter call fails (spec 4.1); the code raises an exception for each
ErrorKinds == {"Timeout", "ProviderUnavailable", "ContentBlocked", "MalformedResponse"}

TextTotal == <<"t","o","t","a","l",":"," ","$","5","0","0">>
TextBill == <<"B","I","L","L">>
TextMemo == <<"m","e","m","o">>
Texts == {TextTotal, TextBill, TextMemo}

Labels == {Str("invoice"), Str("contract"), Str("unknown")}
Confidences == {50, 70, 90, 150}

ExtractReplies ==
    { EmptyDict,
      [a |-> Num(10), b |-> Str("x")],
      [a |-> Num(10), b |-> Null, c |-> Null],
      [a |-> Num(10), b |-> Str("x"), c |-> Str("y")] }

\* the judge's reply after json.loads
JudgeReplies ==
    { [is_valid |-> Bool(TRUE), quality_score |-> Num(90)],
      [is_valid |-> Bool(FALSE), quality_score |-> Num(61)],
      [is_valid |-> Bool(FALSE), quality_score |-> Num(60)],
      [is_valid |-> Bool(FALSE), quality_score |-> Str("high")],
      [is_valid |-> Bool(FALSE), quality_score |-> Null],
      [is_valid |-> Bool(TRUE)],
      EmptyDict }

\* how the try block of validate_extraction fails before a reply is read:
\* the call itself, json.loads of the content, .get on a reply that is no object
JudgeErrors == {"APIConnectionError", "JSONDecodeError", "AttributeError"}

\* what the judge call can end with
JudgeOutcomes == {Returned(r) : r \in JudgeReplies} \cup {Raised(e) : e \in JudgeErrors}

\* return "unknown", 0.0, "none"  /  return {}, "none"
Sentinel(tk) ==
    IF tk = "classify" THEN <<Str("unknown"), 0, "none">> ELSE <<EmptyDict, "none">>

\* before LLMOrchestrator(providers) is called
fbInit ==
    /\ providers = <<>>
    /\ clients = {}
    /\ pc = "new"
    /\ task = "classify"
    /\ text = TextMemo
    /\ idx = 1
    /\ invoked = <<>>
    /\ reply = NoValue
    /\ judged = NoValue
    /\ verdicts = <<>>
    /\ inflight = {}
    /\ outcome = NoValue

fbOff ==
    /\ providers = <<>>
    /\ clients = {}
    /\ pc = "off"
    /\ task = "classify"
    /\ text = <<>>
    /\ idx = 1
    /\ invoked = <<>>
    /\ reply = NoValue
    /\ judged = NoValue
    /\ verdicts = <<>>
    /\ inflight = {}
    /\ outcome = NoValue

\* LLMOrchestrator.__init__(ps), ok the providers whose initialisation
\* succeeds.  _initialize_clients catches each provider's failure and leaves
\* the provider out of self.clients; ValidationAgent(provider="openai") then
\* calls OpenAI(api_key=OPENAI_API_KEY) again, with the same arguments and
\* outside any try: when the OpenAI client cannot be built the exception
\* leaves the constructor.
Construct(ps, ok) ==
    /\ pc = "new"
    /\ providers' = ps
    /\ clients' = ok
    /\ pc' = IF "openai" \in ok THEN "idle" ELSE "raised"
    /\ UNCHANGED <<task, text, idx, invoked, reply, judged, verdicts, inflight,
                   outcome>>
    /\ UNCHANGED <<t3Vars, mgVars, auxVars>>

\* a caller enters classify_with_fallback or extract_with_fallback
StartRequest(tk, tx) ==
    /\ pc \in {"idle", "done"}
    /\ pc' = "loop"
    /\ task' = tk
    /\ text' = tx
    /\ idx' = 1
    /\ invoked' = <<>>
    /\ reply' = NoValue
    /\ judged' = NoValue
    /\ verdicts' = <<>>
    /\ inflight' = {}
    /\ outcome' = NoValue
    /\ UNCHANGED <<providers, clients>>
    /\ UNCHANGED <<t3Vars, mgVars, auxVars>>

\* if provider not in self.clients: continue
SkipProvider ==
    /\ pc = "loop"
    /\ idx <= Len(providers)
    /\ providers[idx] \notin clients
    /\ idx' = idx + 1
    /\ UNCHANGED <<providers, clients, pc, task, text, invoked, reply, judged,
                   verdicts, inflight, outcome>>
    /\ UNCHANGED <<t3Vars, mgVars, auxVars>>

\* self._classify_single(...) / self._extract_single(...) is entered
InvokeProvider ==
    /\ pc = "loop"
    /\ idx <= Len(providers)
    /\ providers[idx] \in clients
    /\ pc' = "calling"
    /\ invoked' = Append(invoked, idx)
    /\ inflight' = inflight \cup {providers[idx]}
    /\ reply' = NoValue
    /\ judged' = NoValue
    /\ UNCHANGED <<providers, clients, task, text, idx, verdicts, outcome>>
    /\ UNCHANGED <<t3Vars, mgVars, auxVars>>

\* the loop moves on to the next provider with verdict v for this one
Continue(v) ==
    /\ pc' = "loop"
    /\ idx' = idx + 1
    /\ verdicts' = Append(verdicts, v)
    /\ inflight' = {}
    /\ UNCHANGED outcome

\* Accept without the return: the loop goes on after an accepted result
AcceptAndGoOn(val) ==
    /\ pc' = "loop"
    /\ idx' = idx + 1
    /\ verdicts' = Append(verdicts, "accepted")
    /\ inflight' = {}
    /\ outcome' = Returned(val)

\* return ..., provider
Accept(val) ==
    /\ pc' = "done"
    /\ verdicts' = Append(verdicts, "accepted")
    /\ inflight' = {}
    /\ outcome' = Returned(val)
    /\ UNCHANGED idx

\* ProviderFails without the except clause: the exception leaves the call
ProviderFailsUncaught(kind) ==
    /\ pc = "calling"
    /\ reply' = Raised(kind)
    /\ pc' = "done"
    /\ verdicts' = Append(verdicts, "error")
    /\ inflight' = {}
    /\ outcome' = Raised(kind)
    /\ UNCHANGED <<providers, clients, task, text, idx, invoked, judged>>
    /\ UNCHANGED <<t3Vars, mgVars, auxVars>>

\* ProviderFails with break for continue: the first failure ends the loop
ProviderFailsBreaks(kind) ==
    /\ pc = "calling"
    /\ reply' = Raised(kind)
    /\ pc' = "loop"
    /\ idx' = Len(providers) + 1
    /\ verdicts' = Append(verdicts, "error")
    /\ inflight' = {}
    /\ UNCHANGED <<providers, clients, task, text, invoked, judged, outcome>>
    /\ UNCHANGED <<t3Vars, mgVars, auxVars>>

\* except Exception as e: ...; continue
ProviderFails(kind) ==
    /\ pc = "calling"
    /\ reply' = Raised(kind)
    /\ Continue("error")
    /\ UNCHANGED <<providers, clients, task, text, invoked, judged>>
    /\ UNCHANGED <<t3Vars, mgVars, auxVars>>

\* the providers whose call ends by itself when no reply comes.  No branch of
\* orchestrator.py passes a timeout: the OpenAI and Gemini clients are taken
\* to apply their library's default; requests.post without timeout= waits
\* for the reply without limit (orchestrator.py:249-252, 345-348).
TimedProviders == {"openai", "gemini"}

\* the timeout of the call in flight expires and the call raises
CallTimesOut ==
    /\ pc = "calling"
    /\ providers[idx] \in TimedProviders
    /\ ProviderFails("Timeout")

\* ProviderClassifies without the check of is_valid
ProviderClassifiesUnchecked(doc_type, confidence) ==
    /\ pc = "calling"
    /\ task = "classify"
    /\ reply' = Returned(<<doc_type, confidence>>)
    /\ Accept(<<doc_type, confidence, providers[idx]>>)
    /\ UNCHANGED <<providers, clients, task, text, invoked, judged>>
    /\ UNCHANGED <<t3Vars, mgVars, auxVars>>

\* _classify_single returns (doc_type, confidence); validate_classification
ProviderClassifies(doc_type, confidence) ==
    /\ pc = "calling"
    /\ task = "classify"
    /\ reply' = Returned(<<doc_type, confidence>>)
    /\ IF validate_classification(text, doc_type, confidence)
       THEN Accept(<<doc_type, confidence, providers[idx]>>)
       ELSE Continue("rejected")
    /\ UNCHANGED <<providers, clients, task, text, invoked, judged>>
    /\ UNCHANGED <<t3Vars, mgVars, auxVars>>

\* ProviderExtracts with the judge call started in the background: the loop
\* moves on to the next provider while the validation is still in flight
ProviderExtractsAsync(extracted_data) ==
    /\ pc = "calling"
    /\ task = "extract"
    /\ reply' = Returned(extracted_data)
    /\ IF TooFewFields(extracted_data)
       THEN Continue("rejected")
       ELSE /\ pc' = "loop"
            /\ idx' = idx + 1
            /\ inflight' = {"judge"}
            /\ UNCHANGED <<verdicts, outcome>>
    /\ UNCHANGED <<providers, clients, task, text, invoked, judged>>
    /\ UNCHANGED <<t3Vars, mgVars, auxVars>>

\* _extract_single returns extracted_data; validate_extraction up to the
\* judge call
ProviderExtracts(extracted_data) ==
    /\ pc = "calling"
    /\ task = "extract"
    /\ reply' = Returned(extracted_data)
    /\ IF TooFewFields(extracted_data)
       THEN Continue("rejected")
       ELSE /\ pc' = "judging"
            /\ inflight' = {"judge"}
            /\ UNCHANGED <<idx, verdicts, outcome>>
    /\ UNCHANGED <<providers, clients, task, text, invoked, judged>>
    /\ UNCHANGED <<t3Vars, mgVars, auxVars>>

\* the judge call ends with outcome j; validate_extraction returns
JudgeEnds(j) ==
    /\ pc = "judging"
    /\ judged' = j
    /\ IF JudgeVerdict(j)
       THEN Accept(<<reply.val, providers[idx]>>)
       ELSE Continue("rejected")
    /\ UNCHANGED <<providers, clients, task, text, invoked, reply>>
    /\ UNCHANGED <<t3Vars, mgVars, auxVars>>

\* the judge call (an OpenAI call) gets no reply and its timeout expires
JudgeTimesOut == JudgeEnds(Raised("APITimeoutError"))

\* the loop is over: return the sentinel
AllProvidersFailed ==
    /\ pc = "loop"
    /\ idx > Len(providers)
    /\ pc' = "done"
    /\ outcome' = Returned(Sentinel(task))
    /\ UNCHANGED <<providers, clients, task, text, idx, invoked, reply, judged,
                   verdicts, inflight>>
    /\ UNCHANGED <<t3Vars, mgVars, auxVars>>

Next ==
    \/ \E ps \in ProviderLists, ok \in SUBSET ProviderIds : Construct(ps, ok)
    \/ \E tk \in {"classify", "extract"}, tx \in Texts : StartRequest(tk, tx)
    \/ SkipProvider
    \/ InvokeProvider
    \/ \E kind \in ErrorKinds : ProviderFails(kind)
    \/ \E doc_type \in Labels, confidence \in Confidences :
           ProviderClassifies(doc_type, confidence)
    \/ \E extracted_data \in ExtractReplies : ProviderExtracts(extracted_data)
    \/ \E j \in JudgeOutcomes : JudgeEnds(j)
    \/ CallTimesOut
    \/ JudgeTimesOut
    \/ AllProvidersFailed

\* the steps the orchestrator takes by itself, a timeout's expiry included;
\* a provider's reply is not one of them: a provider may never reply
OrchestratorStep ==
    SkipProvider \/ InvokeProvider \/ CallTimesOut \/ JudgeTimesOut \/ AllProvidersFailed

-----------------------------------------------------------------------------
(***************************************************************************)
(* Tier3Orchestrator (orchestrator_tier3.py:176-381): the ensemble.        *)
(* A future is "running" until its task ends, then "finished" with the     *)
(* task's outcome, then "collected" once the as_completed loop has         *)
(* handled it.                                                             *)
(***************************************************************************)
MaxHistory == 1     \* ensemble requests start while the history is shorter

EnsembleText == TextTotal
EnsembleDocType == "invoice"

\* what _extract_single can return
EnsembleExtractions ==
    { EmptyDict,
      [total_amount |-> Num(100)],
      [total_amount |-> Num(120)],
      [total_amount |-> Str("120")],
      [parties |-> List(<<Obj>>)] }

\* what _classify_single can return: (doc_type, confidence)
EnsembleClassifications ==
    { <<Str("invoice"), 90>>, <<Str("invoice"), 50>>, <<Str("contract"), 90>>,
      <<Str("contract"), 150>>, <<List(<<Str("invoice")>>), 90>> }

TaskOutcomes(tk) ==
    {Raised(kind) : kind \in {"Timeout", "MalformedResponse"}}
        \cup {Returned(v) : v \in IF tk = "extract" THEN EnsembleExtractions
                                  ELSE EnsembleClassifications}

t3Init ==
    /\ t3_clients \in SUBSET ProviderIds
    /\ epc = "idle"
    /\ etask = "extract"
    /\ futures = EmptyDict
    /\ results = <<>>
    /\ providers_used = <<>>
    /\ eoutcome = NoValue
    /\ extraction_history = <<>>

t3Off ==
    /\ t3_clients = {}
    /\ epc = "off"
    /\ etask = "extract"
    /\ futures = EmptyDict
    /\ results = <<>>
    /\ providers_used = <<>>
    /\ eoutcome = NoValue
    /\ extraction_history = <<>>

\* ThreadPoolExecutor(max_workers=len(self.clients)) raises ValueError when
\* max_workers is 0: nothing is submitted and the exception leaves the call
ExecutorRejected ==
    /\ t3_clients = {}
    /\ epc' = "done"
    /\ futures' = EmptyDict
    /\ eoutcome' = Raised("ValueError")

\* executor.submit(...) for provider in self.clients.keys()
SubmitAll ==
    /\ t3_clients # {}
    /\ epc' = "collecting"
    /\ futures' = [p \in t3_clients |-> [state |-> "running", out |-> NoValue]]
    /\ eoutcome' = NoValue

\* a caller enters ensemble_extract or classify_ensemble
EnsembleStart(tk) ==
    /\ epc \in {"idle", "done"}
    /\ Len(extraction_history) < MaxHistory
    /\ etask' = tk
    /\ results' = <<>>
    /\ providers_used' = <<>>
    /\ ExecutorRejected \/ SubmitAll
    /\ UNCHANGED <<t3_clients, extraction_history>>
    /\ UNCHANGED <<fbVars, mgVars, auxVars>>

\* a worker thread ends provider p's task with outcome out
TaskFinishes(p, out) ==
    /\ epc = "collecting"
    /\ p \in DOMAIN futures
    /\ futures[p].state = "running"
    /\ futures' = [futures EXCEPT ![p] = [state |-> "finished", out |-> out]]
    /\ UNCHANGED <<t3_clients, epc, etask, results, providers_used, eoutcome,
                   extraction_history>>
    /\ UNCHANGED <<fbVars, mgVars, auxVars>>

\* if result and len(result) > 0 (extraction); a classification always counts
Usable(tk, out) ==
    /\ out.kind = "return"
    /\ tk = "extract" => out.val # EmptyDict

\* Collect failing fast: a raised future drops what the siblings gave
CollectFailFast(p) ==
    /\ epc = "collecting"
    /\ p \in DOMAIN futures
    /\ futures[p].state = "finished"
    /\ futures' = [futures EXCEPT ![p].state = "collected"]
    /\ IF Usable(etask, futures[p].out)
       THEN /\ results' = Append(results, futures[p].out.val)
            /\ providers_used' = Append(providers_used, p)
       ELSE IF futures[p].out.kind = "raise"
            THEN results' = <<>> /\ providers_used' = <<>>
            ELSE UNCHANGED <<results, providers_used>>
    /\ UNCHANGED <<t3_clients, epc, etask, eoutcome, extraction_history>>
    /\ UNCHANGED <<fbVars, mgVars, auxVars>>

\* one round of the as_completed loop, for the finished future of provider p
Collect(p) ==
    /\ epc = "collecting"
    /\ p \in DOMAIN futures
    /\ futures[p].state = "finished"
    /\ futures' = [futures EXCEPT ![p].state = "collected"]
    /\ IF Usable(etask, futures[p].out)
       THEN /\ results' = Append(results, futures[p].out.val)
            /\ providers_used' = Append(providers_used, p)
       ELSE UNCHANGED <<results, providers_used>>
    /\ UNCHANGED <<t3_clients, epc, etask, eoutcome, extraction_history>>
    /\ UNCHANGED <<fbVars, mgVars, auxVars>>

\* lines 257-273, once the loop and the with block are over
FinishExtract ==
    IF results = <<>>
    THEN /\ eoutcome' = Returned(<<EmptyDict, <<>>>>)
         /\ UNCHANGED extraction_history
    ELSE \E m \in merge_extractions(results) :
            IF m.kind = "raise"
            THEN /\ eoutcome' = m
                 /\ UNCHANGED extraction_history
            ELSE /\ eoutcome' = Returned(<<m.val, providers_used>>)
                 /\ extraction_history' =
                        Append(extraction_history,
                               [text |-> EnsembleText, doc_type |-> EnsembleDocType,
                                merged_result |-> m.val,
                                individual_results |-> results])

\* FinishClassify averaging only the confidences of the winning label
FinishClassifyWinnerMean ==
    /\ UNCHANGED extraction_history
    /\ IF results = <<>>
       THEN eoutcome' = Returned(<<Str("unknown"), Num(0), <<>>>>)
       ELSE LET doc_types == [i \in 1..Len(results) |-> results[i][1]]
                winners == SelectSeq(results, LAMBDA c : c[1] = MostCommon(doc_types))
                confidences == [i \in 1..Len(winners) |-> Num(winners[i][2])]
            IN  IF \E i \in 1..Len(doc_types) : ~Hashable(doc_types[i])
                THEN eoutcome' = Raised("TypeError")
                ELSE eoutcome' = Returned(<<MostCommon(doc_types),
                                            Div(SumSeq(confidences), Len(confidences)),
                                            providers_used>>)

\* FinishClassify returning the label that completed first
FinishClassifyFirst ==
    /\ UNCHANGED extraction_history
    /\ IF results = <<>>
       THEN eoutcome' = Returned(<<Str("unknown"), Num(0), <<>>>>)
       ELSE LET doc_types == [i \in 1..Len(results) |-> results[i][1]]
                confidences == [i \in 1..Len(results) |-> Num(results[i][2])]
            IN  IF \E i \in 1..Len(doc_types) : ~Hashable(doc_types[i])
                THEN eoutcome' = Raised("TypeError")
                ELSE eoutcome' = Returned(<<doc_types[1],
                                            Div(SumSeq(confidences), Len(confidences)),
                                            providers_used>>)

\* lines 368-381: Counter(doc_types) raises TypeError on an unhashable label
FinishClassify ==
    /\ UNCHANGED extraction_history
    /\ IF results = <<>>
       THEN eoutcome' = Returned(<<Str("unknown"), Num(0), <<>>>>)
       ELSE LET doc_types == [i \in 1..Len(results) |-> results[i][1]]
                confidences == [i \in 1..Len(results) |-> Num(results[i][2])]
            IN  IF \E i \in 1..Len(doc_types) : ~Hashable(doc_types[i])
                THEN eoutcome' = Raised("TypeError")
                ELSE eoutcome' = Returned(<<MostCommon(doc_types),
                                            Div(SumSeq(confidences), Len(confidences)),
                                            providers_used>>)

\* EnsembleJoin without the wait: the call finishes after the first future
EnsembleJoinEarly ==
    /\ epc = "collecting"
    /\ \E p \in DOMAIN futures : futures[p].state = "collected"
    /\ epc' = "done"
    /\ IF etask = "extract" THEN FinishExtract ELSE FinishClassify
    /\ UNCHANGED <<t3_clients, etask, futures, results, providers_used>>
    /\ UNCHANGED <<fbVars, mgVars, auxVars>>

\* every future has been yielded: the with block ends and the call finishes
EnsembleJoin ==
    /\ epc = "collecting"
    /\ \A p \in DOMAIN futures : futures[p].state = "collected"
    /\ epc' = "done"
    /\ IF etask = "extract" THEN FinishExtract ELSE FinishClassify
    /\ UNCHANGED <<t3_clients, etask, futures, results, providers_used>>
    /\ UNCHANGED <<fbVars, mgVars, auxVars>>

NextEnsemble ==
    \/ \E tk \in {"extract", "classify"} : EnsembleStart(tk)
    \/ \E p \in ProviderIds : \E out \in TaskOutcomes(etask) : TaskFinishes(p, out)
    \/ \E p \in ProviderIds : Collect(p)
    \/ EnsembleJoin

-----------------------------------------------------------------------------
(***************************************************************************)
(* The provider adapters: how _classify_single and _extract_single read    *)
(* the raw reply (orchestrator.py:195-354, orchestrator_tier3.py:275-440). *)
(* A raw reply is a sequence of tokens: "{" and "}", "m" for one member    *)
(* of an object, "t" for a piece of text outside JSON.                     *)
(***************************************************************************)
MaxRaw == 4     \* the longest raw reply, in tokens

AdapterTokens == {"{", "}", "m", "t"}
RawReplies == UNION {[1..n -> AdapterTokens] : n \in 0..MaxRaw}

\* s.find(c): the 0-based position of the first c, -1 when there is none
Find(s, c) ==
    IF \E i \in 1..Len(s) : s[i] = c
    THEN (CHOOSE i \in 1..Len(s) : s[i] = c /\ \A j \in 1..(i - 1) : s[j] # c) - 1
    ELSE -1

\* s.rfind(c): the 0-based position of the last c, -1 when there is none
RFind(s, c) ==
    IF \E i \in 1..Len(s) : s[i] = c
    THEN (CHOOSE i \in 1..Len(s) : s[i] = c /\ \A j \in (i + 1)..Len(s) : s[j] # c) - 1
    ELSE -1

\* s[a:b] for b >= 0: a negative a counts from the end
Slice(s, a, b) ==
    LET lo == IF a < 0 THEN (IF Len(s) + a < 0 THEN 0 ELSE Len(s) + a)
              ELSE (IF a > Len(s) THEN Len(s) ELSE a)
        hi == IF b > Len(s) THEN Len(s) ELSE b
    IN  IF lo >= hi THEN <<>> ELSE SubSeq(s, lo + 1, hi)

\* json.loads(s): the documents of the token language are {} and {m}
JsonLoads(s) ==
    IF s \in {<<"{", "}">>, <<"{", "m", "}">>}
    THEN Returned(s)
    ELSE Raised("JSONDecodeError")

\* text[text.find('{'):text.rfind('}')+1]
JsonSpan(s) == Slice(s, Find(s, "{"), RFind(s, "}") + 1)

\* the reading of the reply in the branch of one provider
Adapter(provider, reply_text) ==
    IF provider = "openai" THEN JsonLoads(reply_text)
    ELSE IF provider = "gemini"
         THEN IF reply_text = <<>> THEN Raised("ValueError")
              ELSE JsonLoads(JsonSpan(reply_text))
    ELSE JsonLoads(JsonSpan(reply_text))

adInit ==
    /\ apc = "in"
    /\ aprovider \in ProviderIds
    /\ raw \in RawReplies
    /\ aout = NoValue

adOff ==
    /\ apc = "off"
    /\ aprovider = "none"
    /\ raw = <<>>
    /\ aout = NoValue

\* no batch_classify call and no extract call is modelled
feOff ==
    /\ bpc = "off"
    /\ documents = <<>>
    /\ bpos = 1
    /\ batch_results = <<>>
    /\ xpc = "off"
    /\ xdoc_type = Null
    /\ xout = NoValue

auxOff == adOff /\ feOff

AdapterReturns ==
    /\ apc = "in"
    /\ apc' = "out"
    /\ aout' = Adapter(aprovider, raw)
    /\ UNCHANGED <<aprovider, raw>>
    /\ UNCHANGED <<fbVars, t3Vars, mgVars, feVars>>

-----------------------------------------------------------------------------
(***************************************************************************)
(* DocumentClassifier and FieldExtractor: the callers of the fallback      *)
(* orchestrator.  Each builds LLMOrchestrator() with the default priority  *)
(* list and runs its requests on it, one after the other.                  *)
(***************************************************************************)
\* config.MODEL_PRIORITY
MODEL_PRIORITY == <<"openai", "gemini", "ollama">>

\* self.orchestrator = LLMOrchestrator()
ConstructDefault(ok) == Construct(MODEL_PRIORITY, ok)

\* the orchestrator's method is entered with task tk on text tx
Enter(tk, tx) ==
    /\ pc \in {"idle", "done"}
    /\ pc' = "loop"
    /\ task' = tk
    /\ text' = tx
    /\ idx' = 1
    /\ invoked' = <<>>
    /\ reply' = NoValue
    /\ judged' = NoValue
    /\ verdicts' = <<>>
    /\ inflight' = {}
    /\ outcome' = NoValue
    /\ UNCHANGED <<providers, clients>>

MaxDocs == 2
SampleLength == 3000

\* the document mappings: with a text, or without the key 'text'
Docs == {[text |-> TextTotal], [text |-> TextMemo], EmptyDict}
DocumentLists == UNION {[1..n -> Docs] : n \in 0..MaxDocs}

\* doc.get('text', '')
DocText(doc) == IF "text" \in DOMAIN doc THEN doc.text ELSE <<>>

\* text[:3000] if len(text) > 3000 else text
Sample(tx) == IF Len(tx) > SampleLength THEN SubSeq(tx, 1, SampleLength) ELSE tx

beInit ==
    /\ bpc = "idle"
    /\ documents = <<>>
    /\ bpos = 1
    /\ batch_results = <<>>
    /\ xpc = "off"
    /\ xdoc_type = Null
    /\ xout = NoValue

\* batch_classify(docs) is entered: results = []
BatchClassify(docs) ==
    /\ bpc = "idle"
    /\ pc = "idle"
    /\ bpc' = "loop"
    /\ documents' = docs
    /\ bpos' = 1
    /\ batch_results' = <<>>
    /\ UNCHANGED <<xpc, xdoc_type, xout>>
    /\ UNCHANGED <<fbVars, t3Vars, mgVars, adVars>>

\* self.classify(doc.get('text', '')) up to the call of
\* classify_with_fallback(text_sample, self.prompt_template)
ClassifyCall ==
    /\ bpc = "loop"
    /\ bpos <= Len(documents)
    /\ Enter("classify", Sample(DocText(documents[bpos])))
    /\ bpc' = "classifying"
    /\ UNCHANGED <<documents, bpos, batch_results, xpc, xdoc_type, xout>>
    /\ UNCHANGED <<t3Vars, mgVars, adVars>>

\* ClassifyReturns that leaves the documents no provider classified out of
\* the list
ClassifyReturnsSkipsUnknown ==
    /\ bpc = "classifying"
    /\ pc = "done"
    /\ IF outcome.kind = "return"
       THEN /\ batch_results' =
                  IF outcome.val[3] = "none"
                  THEN batch_results
                  ELSE Append(batch_results, <<outcome.val[1], outcome.val[2]>>)
            /\ bpos' = bpos + 1
            /\ bpc' = "loop"
       ELSE /\ bpc' = "raised"
            /\ UNCHANGED <<bpos, batch_results>>
    /\ UNCHANGED <<documents, xpc, xdoc_type, xout>>
    /\ UNCHANGED <<fbVars, t3Vars, mgVars, adVars>>

\* classify_with_fallback returns (doc_type, confidence, provider); classify
\* returns (doc_type, confidence); results.append((doc_type, confidence)).
\* An exception of classify_with_fallback would leave batch_classify.
ClassifyReturns ==
    /\ bpc = "classifying"
    /\ pc = "done"
    /\ IF outcome.kind = "return"
       THEN /\ batch_results' =
                  Append(batch_results, <<outcome.val[1], outcome.val[2]>>)
            /\ bpos' = bpos + 1
            /\ bpc' = "loop"
       ELSE /\ bpc' = "raised"
            /\ UNCHANGED <<bpos, batch_results>>
    /\ UNCHANGED <<documents, xpc, xdoc_type, xout>>
    /\ UNCHANGED <<fbVars, t3Vars, mgVars, adVars>>

\* return results
BatchReturns ==
    /\ bpc = "loop"
    /\ bpos > Len(documents)
    /\ bpc' = "done"
    /\ UNCHANGED <<documents, bpos, batch_results, xpc, xdoc_type, xout>>
    /\ UNCHANGED <<fbVars, t3Vars, mgVars, adVars>>

NextBatch ==
    \/ \E ok \in SUBSET ProviderIds : ConstructDefault(ok)
    \/ \E docs \in DocumentLists : BatchClassify(docs)
    \/ ClassifyCall
    \/ SkipProvider
    \/ InvokeProvider
    \/ \E kind \in ErrorKinds : ProviderFails(kind)
    \/ \E doc_type \in Labels, confidence \in Confidences :
           ProviderClassifies(doc_type, confidence)
    \/ CallTimesOut
    \/ AllProvidersFailed
    \/ ClassifyReturns
    \/ BatchReturns

\* the document types with an entry in prompt_files; _load_prompts gives each
\* of them the text of its file or the default prompt
PromptTypes == {"invoice", "contract", "email", "meeting_minutes"}

\* self.prompts.get(doc_type): the prompt text, or None
PromptOf(doc_type) ==
    IF doc_type.t = "str" /\ doc_type.s \in PromptTypes
    THEN Str("prompt")
    ELSE Null

\* the doc_type arguments: two types with a prompt, the sentinel of
\* classify_with_fallback, a type outside the list, and None
DocTypes == {Str("invoice"), Str("email"), Str("unknown"), Str("receipt"), Null}

xeInit ==
    /\ bpc = "off"
    /\ documents = <<>>
    /\ bpos = 1
    /\ batch_results = <<>>
    /\ xpc = "idle"
    /\ xdoc_type = Null
    /\ xout = NoValue

\* Extract without the test of prompt_template
ExtractUnguarded(tx, doc_type) ==
    /\ xpc = "idle"
    /\ pc = "idle"
    /\ xdoc_type' = doc_type
    /\ Enter("extract", tx)
    /\ xpc' = "extracting"
    /\ UNCHANGED xout
    /\ UNCHANGED <<bpc, documents, bpos, batch_results>>
    /\ UNCHANGED <<t3Vars, mgVars, adVars>>

\* extract(text, doc_type) up to its return of {} or to the call of
\* extract_with_fallback(text, doc_type, prompt_template)
Extract(tx, doc_type) ==
    /\ xpc = "idle"
    /\ pc = "idle"
    /\ xdoc_type' = doc_type
    /\ IF PromptOf(doc_type) = Null
       THEN /\ xpc' = "done"
            /\ xout' = Returned(EmptyDict)
            /\ UNCHANGED fbVars
       ELSE /\ Enter("extract", tx)
            /\ xpc' = "extracting"
            /\ UNCHANGED xout
    /\ UNCHANGED <<bpc, documents, bpos, batch_results>>
    /\ UNCHANGED <<t3Vars, mgVars, adVars>>

\* extract_with_fallback returns (extracted_data, provider); extract returns
\* extracted_data
ExtractReturns ==
    /\ xpc = "extracting"
    /\ pc = "done"
    /\ xpc' = "done"
    /\ xout' = IF outcome.kind = "return" THEN Returned(outcome.val[1]) ELSE outcome
    /\ UNCHANGED <<bpc, documents, bpos, batch_results, xdoc_type>>
    /\ UNCHANGED <<fbVars, t3Vars, mgVars, adVars>>

NextExtract ==
    \/ \E ok \in SUBSET ProviderIds : ConstructDefault(ok)
    \/ \E tx \in Texts, doc_type \in DocTypes : Extract(tx, doc_type)
    \/ SkipProvider
    \/ InvokeProvider
    \/ \E kind \in ErrorKinds : ProviderFails(kind)
    \/ \E extracted_data \in ExtractReplies : ProviderExtracts(extracted_data)
    \/ \E j \in JudgeOutcomes : JudgeEnds(j)
    \/ CallTimesOut
    \/ JudgeTimesOut
    \/ AllProvidersFailed
    \/ ExtractReturns

-----------------------------------------------------------------------------
(***************************************************************************)
(* The specifications.                                                     *)
(***************************************************************************)
Init == fbInit /\ t3Off /\ mgOff /\ auxOff
Spec == Init /\ [][Next]_vars

\* the fallback orchestrator with its own steps taken whenever they stay
\* possible; no fairness for the replies of the providers
SpecLive == Init /\ [][Next]_vars /\ WF_vars(OrchestratorStep)

InitEnsemble == fbOff /\ t3Init /\ mgOff /\ auxOff
SpecEnsemble == InitEnsemble /\ [][NextEnsemble]_vars

InitMerge == fbOff /\ t3Off /\ mgInit /\ auxOff
NextMerge == Merge
SpecMerge == InitMerge /\ [][NextMerge]_vars

InitAdapter == fbOff /\ t3Off /\ mgOff /\ adInit /\ feOff
NextAdapter == AdapterReturns
SpecAdapter == InitAdapter /\ [][NextAdapter]_vars

InitBatch == fbInit /\ t3Off /\ mgOff /\ adOff /\ beInit
SpecBatch == InitBatch /\ [][NextBatch]_vars

InitExtract == fbInit /\ t3Off /\ mgOff /\ adOff /\ xeInit
SpecExtract == InitExtract /\ [][NextExtract]_vars

-----------------------------------------------------------------------------
(***************************************************************************)
(* Properties of the fallback orchestrator (Spec).                         *)
(***************************************************************************)
Last(sq) == sq[Len(sq)]

\* the value a call returns when it accepts the last reply
AcceptedResult ==
    IF task = "classify"
    THEN <<reply.val[1], reply.val[2], providers[Last(invoked)]>>
    ELSE <<reply.val, providers[Last(invoked)]>>

\* the provider id of a returned value
ProviderOf(val) == val[Len(val)]

\* the Validation Agent rejects the reply of the provider invoked last
LastReplyRejected ==
    /\ reply.kind = "return"
    /\ pc # "judging"
    /\ IF task = "classify"
       THEN ~validate_classification(text, reply.val[1], reply.val[2])
       ELSE \/ TooFewFields(reply.val)
            \/ judged # NoValue /\ ~JudgeVerdict(judged)

\* C1: within one request, once a provider's result has been accepted no
\* further provider is invoked: the accepted provider is the last one
\* invoked and the call has returned its result, whatever the priority list.
C1_AcceptedReturnsAtOnce ==
    \A i \in 1..Len(verdicts) :
        verdicts[i] = "accepted" =>
            /\ i = Len(invoked)
            /\ pc = "done"
            /\ outcome = Returned(AcceptedResult)

\* an accepted result with another available provider left untried behind it
C1_Witness ==
    /\ pc = "done"
    /\ verdicts # <<>>
    /\ Last(verdicts) = "accepted"
    /\ \E j \in (Last(invoked) + 1)..Len(providers) :
           providers[j] \in clients /\ providers[j] # providers[Last(invoked)]

\* C2: when every provider of the list is unavailable, fails or is rejected,
\* the call returns the sentinel ("unknown", 0.0, "none") or ({}, "none");
\* no call raises.
C2_ExhaustedGivesSentinel ==
    /\ outcome.kind # "raise"
    /\ (pc = "done" /\ \A i \in 1..Len(verdicts) : verdicts[i] # "accepted")
           => outcome = Returned(Sentinel(task))
    /\ pc = "done" => outcome.kind = "return"

\* a sentinel after an unavailable, a failing and a rejected provider
C2_Witness ==
    /\ pc = "done"
    /\ outcome = Returned(Sentinel(task))
    /\ \E i \in 1..Len(providers) : providers[i] \notin clients
    /\ \E i, j \in 1..Len(verdicts) : verdicts[i] = "error" /\ verdicts[j] = "rejected"

\* after a failed invocation the loop stands at the next position, skipping
\* only unavailable providers, and ends with the sentinel only when no
\* available provider is left
C3_Proceeds ==
    reply.kind = "raise" =>
        LET at == Last(invoked)
        IN  /\ Last(verdicts) = "error"
            /\ \/ /\ pc = "loop"
                  /\ idx > at
                  /\ \A j \in (at + 1)..(idx - 1) : providers[j] \notin clients
               \/ /\ pc = "done"
                  /\ outcome = Returned(Sentinel(task))
                  /\ \A j \in (at + 1)..Len(providers) : providers[j] \notin clients

\* providers A, B, C = openai, gemini, ollama, all available, on "total: $500"
C3_Scenario ==
    ( /\ providers = <<"openai", "gemini", "ollama">>
      /\ clients = ProviderIds
      /\ task = "classify"
      /\ text = TextTotal ) =>
        /\ (invoked = <<1>> /\ reply = Raised("Timeout")) => (pc = "loop" /\ idx = 2)
        /\ ( /\ Len(invoked) = 2
             /\ verdicts = <<"error", "accepted">> \/ verdicts = <<"error", "rejected">>
             /\ reply = Returned(<<Str("invoice"), 90>>) ) =>
               /\ pc = "done"
               /\ outcome = Returned(<<Str("invoice"), 90, "gemini">>)
               /\ invoked = <<1, 2>>

\* C3: any failure of a provider invocation (timeout, unreachable, blocked,
\* unparseable) makes the loop proceed to the next provider in order; with
\* A timing out and B answering ("invoice", 0.9) on "total: $500" the call
\* returns ("invoice", 0.9, "B") and C is never invoked.
C3_FailureProceedsToNext == C3_Proceeds /\ C3_Scenario

\* the scenario's end: A failed, B's ("invoice", 0.9) was returned, C untouched
C3_Witness ==
    /\ providers = <<"openai", "gemini", "ollama">>
    /\ clients = ProviderIds
    /\ text = TextTotal
    /\ verdicts = <<"error", "accepted">>
    /\ outcome = Returned(<<Str("invoice"), 90, "gemini">>)
    /\ invoked = <<1, 2>>

\* C4: a non-sentinel result was produced by the provider named in it, that
\* provider is configured and available, and the Validation Agent accepted
\* the result; a rejected result is never returned and the loop falls through.
C4_ReturnedIsProducedAndAccepted ==
    /\ (pc = "done" /\ outcome.kind = "return" /\ ProviderOf(outcome.val) # "none") =>
           /\ ProviderOf(outcome.val) \in Range(providers) \cap clients
           /\ invoked # <<>>
           /\ reply.kind = "return"
           /\ outcome.val = AcceptedResult
           /\ IF task = "classify"
              THEN validate_classification(text, outcome.val[1], outcome.val[2])
              ELSE /\ ~TooFewFields(outcome.val[1])
                   /\ judged # NoValue
                   /\ JudgeVerdict(judged)
    /\ LastReplyRejected =>
           /\ outcome \in {NoValue, Returned(Sentinel(task))}
           /\ pc \in {"loop", "done"}
           /\ idx > Last(invoked)

\* an accepted extraction returned after an earlier provider's was rejected
C4_Witness ==
    /\ pc = "done"
    /\ task = "extract"
    /\ outcome.kind = "return"
    /\ ProviderOf(outcome.val) # "none"
    /\ Len(verdicts) >= 2
    /\ verdicts[1] = "rejected"

\* a signature keyword of "invoice" occurs in the text, whatever the case
HasInvoiceKeyword(tx) ==
    \E k \in InvoiceKeywords :
        \E i \in 0..(Len(tx) - Len(k)) :
            \A j \in 1..Len(k) : LowerChar(tx[i + j]) = k[j]

\* C12: validate_classification accepts a classification exactly when its
\* confidence is at least 0.7, its label is not "unknown" and, for the label
\* "invoice", a signature keyword occurs in the text as a case-insensitive
\* substring; a confidence of 0.5 is rejected whatever the label and text.
C12_ClassificationAcceptedExactlyWhen ==
    (task = "classify" /\ reply.kind = "return") =>
        LET doc_type == reply.val[1]
            confidence == reply.val[2]
        IN  /\ Last(verdicts) \in {"accepted", "rejected"}
            /\ Last(verdicts) = "accepted" <=>
                   /\ confidence >= 70
                   /\ doc_type # Str("unknown")
                   /\ doc_type = Str("invoice") => HasInvoiceKeyword(text)
            /\ confidence = 50 => Last(verdicts) = "rejected"

\* "invoice" at exactly 0.7 on the text "BILL" is accepted
C12_Witness ==
    /\ task = "classify"
    /\ text = TextBill
    /\ reply = Returned(<<Str("invoice"), 70>>)
    /\ Last(verdicts) = "accepted"
    /\ pc = "done"

\* the judge call failed: it raised, or its reply's quality_score cannot be
\* formatted as a number
JudgeFailed ==
    /\ judged # NoValue
    /\ \/ judged.kind = "raise"
       \/ /\ judged.kind = "return"
          /\ "quality_score" \in DOMAIN judged.val
          /\ judged.val["quality_score"].t \notin {"num", "bool"}

\* C13: if the judge call of validate_extraction fails in any way (network
\* error, unparseable reply, malformed judge fields) the extraction is
\* accepted and extract_with_fallback returns that provider's result; the
\* failure raises nothing and does not block the loop.
C13_JudgeFailureAccepts ==
    /\ JudgeFailed =>
           /\ Last(verdicts) = "accepted"
           /\ pc = "done"
           /\ outcome = Returned(<<reply.val, providers[Last(invoked)]>>)
    /\ judged # NoValue => outcome.kind # "raise"

\* a judge reply that cannot be parsed, on the second provider's extraction
C13_Witness ==
    /\ task = "extract"
    /\ judged = Raised("JSONDecodeError")
    /\ Len(invoked) = 2
    /\ pc = "done"
    /\ outcome = Returned(<<reply.val, providers[invoked[2]]>>)

\* C15: every confidence the orchestrator returns to the caller lies in
\* [0, 1], whatever number the provider reported.
C15_ConfidenceInUnitInterval ==
    (task = "classify" /\ outcome.kind = "return") =>
        (outcome.val[2] >= 0 /\ outcome.val[2] <= 100)

\* C16: constructing the orchestrator never raises because a provider could
\* not be initialised; such a provider is not in self.clients and no request
\* invokes it.
C16_ConstructionNeverRaises ==
    /\ pc # "raised"
    /\ \A i \in 1..Len(invoked) : providers[invoked[i]] \in clients

\* C17: within one call the providers are invoked in the order of the
\* priority list and each provider at most once, for every list the
\* orchestrator can be constructed with.
C17_InOrderAtMostOnce ==
    \A i, j \in 1..Len(invoked) :
        i < j => /\ invoked[i] < invoked[j]
                 /\ providers[invoked[i]] # providers[invoked[j]]

\* the fields of an extraction that carry a non-null value
NonNullFields(extracted_data) ==
    {k \in DOMAIN extracted_data : extracted_data[k].t # "null"}

\* C20: validate_extraction rejects at once, without calling the judge, every
\* extraction in which fewer than 3 fields carry a non-null value.
C20_FewNonNullRejectedUnjudged ==
    ( /\ task = "extract"
      /\ reply.kind = "return"
      /\ Cardinality(NonNullFields(reply.val)) < 3 ) =>
        /\ pc # "judging"
        /\ judged = NoValue
        /\ Last(verdicts) = "rejected"

\* C21: when the judge call succeeds, validate_extraction accepts the
\* extraction if and only if the judge's is_valid is true or its
\* quality_score is strictly greater than 0.6; a missing is_valid counts as
\* false and a missing quality_score as 0.0.
C21_JudgeAcceptRule ==
    (task = "extract" /\ judged # NoValue /\ ~JudgeFailed) =>
        LET r == judged.val
            is_valid == "is_valid" \in DOMAIN r /\ r["is_valid"] = Bool(TRUE)
            quality_score == IF "quality_score" \in DOMAIN r
                             THEN r["quality_score"].n ELSE 0
        IN  /\ Last(verdicts) \in {"accepted", "rejected"}
            /\ Last(verdicts) = "accepted" <=> (is_valid \/ quality_score > 60)

\* is_valid false with quality_score 0.6 exactly: rejected
C21_Witness ==
    /\ task = "extract"
    /\ judged = Returned([is_valid |-> Bool(FALSE), quality_score |-> Num(60)])
    /\ Last(verdicts) = "rejected"

\* C25: every fallback request eventually returns even when a provider
\* never responds: each provider call is bounded by a timeout, whose expiry
\* is that provider's failure, and the request goes on.
C25_RequestsReturn ==
    (pc \in {"loop", "calling", "judging"}) ~> (pc = "done")

\* C27: during a fallback request at most one remote call (a provider
\* invocation or the judge call) is in flight at any time, and a provider is
\* invoked only after every earlier invocation of the request and its
\* validation have finished (each has its verdict).
C27_OneRemoteCallAtATime ==
    /\ Cardinality(inflight) <= 1
    /\ pc = "calling" => inflight = {providers[idx]}
    /\ pc = "judging" => inflight = {"judge"}
    /\ pc \in {"calling", "judging"} => Len(verdicts) = Len(invoked) - 1
    /\ pc \in {"loop", "done"} =>
           inflight = {} /\ Len(verdicts) = Len(invoked)

\* the judge call for the second provider of a request is in flight, after
\* the first provider's reply was judged and rejected
C27_Witness ==
    /\ pc = "judging"
    /\ inflight = {"judge"}
    /\ Len(invoked) = 2
    /\ verdicts = <<"rejected">>
    /\ judged = NoValue
    /\ providers[invoked[1]] # providers[invoked[2]]

-----------------------------------------------------------------------------
(***************************************************************************)
(* Properties of the ensemble orchestrator (SpecEnsemble).                 *)
(***************************************************************************)
\* the providers whose task gave a usable result and has been collected
Succeeded ==
    {p \in DOMAIN futures :
        futures[p].state = "collected" /\ Usable(etask, futures[p].out)}

EmptyOutcome(tk) ==
    IF tk = "extract" THEN <<EmptyDict, <<>>>> ELSE <<Str("unknown"), Num(0), <<>>>>

\* C5: if zero providers succeed (all raise, all return nothing, or none is
\* available at all), ensemble_extract returns ({}, []) and classify_ensemble
\* returns ("unknown", 0.0, []); neither raises.
C5_NoSuccessGivesEmpty ==
    (epc = "done" /\ Succeeded = {}) => eoutcome = Returned(EmptyOutcome(etask))

\* C6: provider failures are isolated: whatever subset of the tasks raises,
\* providers_used holds exactly the providers whose task succeeded with a
\* usable result, each once, results holds their results in the same order,
\* and what is returned is the merge of exactly those results (one success
\* out of three gives that provider's result).
C6_FailuresIsolated ==
    /\ \A i, j \in 1..Len(providers_used) :
           i # j => providers_used[i] # providers_used[j]
    /\ Range(providers_used) = Succeeded
    /\ Len(results) = Len(providers_used)
    /\ \A i \in 1..Len(results) : results[i] = futures[providers_used[i]].out.val
    /\ (epc = "done" /\ t3_clients # {}) =>
           Succeeded = {p \in DOMAIN futures : Usable(etask, futures[p].out)}
    /\ (epc = "done" /\ eoutcome.kind = "return" /\ results # <<>>) =>
           IF etask = "extract"
           THEN /\ Returned(eoutcome.val[1]) \in merge_extractions(results)
                /\ eoutcome.val[2] = providers_used
           ELSE /\ eoutcome.val[3] = providers_used
                /\ eoutcome.val[1] =
                       MostCommon([i \in 1..Len(results) |-> results[i][1]])
                /\ eoutcome.val[2] =
                       Div(SumSeq([i \in 1..Len(results) |-> Num(results[i][2])]),
                           Len(results))
    /\ (epc = "done" /\ etask = "extract" /\ Len(results) = 1) =>
           eoutcome = Returned(<<results[1], providers_used>>)

\* one success out of three: the two other tasks raised
C6_Witness ==
    /\ epc = "done"
    /\ etask = "extract"
    /\ Cardinality(DOMAIN futures) = 3
    /\ Cardinality({p \in DOMAIN futures : futures[p].out.kind = "raise"}) = 2
    /\ Len(providers_used) = 1
    /\ eoutcome = Returned(<<results[1], providers_used>>)

\* C7: ensemble_extract and classify_ensemble never propagate an exception,
\* whatever the providers return, values of different types for one field
\* name and lists of objects included.  (Stated for an orchestrator with at
\* least one client; the orchestrator without any is C5's case.)
C7_EnsembleNeverRaises ==
    t3_clients # {} => eoutcome.kind # "raise"

\* every succeeding provider's label is a string (the return type of
\* _classify_single)
LabelsAreStrings == \A i \in 1..Len(results) : results[i][1].t = "str"

\* the votes for label l among the classifications collected
Votes(l) == Cardinality({i \in 1..Len(results) : results[i][1] = l})

\* C14: classify_ensemble returns the label with the most votes among the
\* providers that succeeded (of tied labels the one met first in completion
\* order) and, as confidence, the arithmetic mean of the confidences of all
\* succeeding providers, those that voted for another label included.
C14_VoteAndMean ==
    (epc = "done" /\ etask = "classify" /\ results # <<>> /\ LabelsAreStrings) =>
        /\ eoutcome.kind = "return"
        /\ \E w \in 1..Len(results) :
              /\ eoutcome.val[1] = results[w][1]
              /\ \A j \in 1..Len(results) : Votes(results[j][1]) <= Votes(results[w][1])
              /\ \A j \in 1..(w - 1) : Votes(results[j][1]) < Votes(results[w][1])
        /\ eoutcome.val[2].n * Len(results) =
               eoutcome.val[2].d *
                   SumSeq([i \in 1..Len(results) |-> Num(results[i][2])])
        /\ eoutcome.val[3] = providers_used

\* a tie of one vote each: the label that completed first wins and the
\* confidence is the mean of both voters' confidences
C14_Witness ==
    /\ epc = "done"
    /\ etask = "classify"
    /\ results = << <<Str("contract"), 90>>, <<Str("invoice"), 50>> >>
    /\ eoutcome = Returned(<<Str("contract"), Num(70), providers_used>>)

\* C18: an ensemble request submits exactly one task per available provider,
\* and when the call is over every submitted task has completed or raised and
\* been collected: none is still running and no usable outcome is missing
\* from the results.
C18_AllTasksJoined ==
    /\ epc \in {"collecting", "done"} => DOMAIN futures = t3_clients
    /\ epc = "done" =>
           \A p \in DOMAIN futures :
               /\ futures[p].state = "collected"
               /\ futures[p].out.kind \in {"return", "raise"}
               /\ Usable(etask, futures[p].out) =>
                      \E i \in 1..Len(results) :
                          providers_used[i] = p /\ results[i] = futures[p].out.val

\* three tasks: one raised, one returned nothing, one gave the only result
C18_Witness ==
    /\ epc = "done"
    /\ etask = "extract"
    /\ t3_clients = ProviderIds
    /\ \E p \in DOMAIN futures : futures[p].out.kind = "raise"
    /\ \E p \in DOMAIN futures : futures[p].out = Returned(EmptyDict)
    /\ Len(results) = 1
    /\ eoutcome.kind = "return"

\* the votes for label l over the outcomes of the tasks, in no order
TaskVotes(l) ==
    Cardinality({p \in DOMAIN futures :
                    futures[p].out.kind = "return" /\ futures[p].out.val[1] = l})

\* C19: for every completion order of the provider tasks, if one label has
\* strictly more votes than every other label among the succeeding providers,
\* classify_ensemble returns that label.
C19_PluralityIsDeterministic ==
    (epc = "done" /\ etask = "classify" /\ results # <<>> /\ LabelsAreStrings) =>
        \A l \in {results[i][1] : i \in 1..Len(results)} :
            (\A m \in {results[i][1] : i \in 1..Len(results)} \ {l} :
                 TaskVotes(m) < TaskVotes(l))
                => (eoutcome.kind = "return" /\ eoutcome.val[1] = l)

\* two votes against one, the minority label having completed first
C19_Witness ==
    /\ epc = "done"
    /\ etask = "classify"
    /\ Len(results) = 3
    /\ results[1][1] = Str("contract")
    /\ results[2][1] = Str("invoice")
    /\ results[3][1] = Str("invoice")
    /\ eoutcome.kind = "return"
    /\ eoutcome.val[1] = Str("invoice")

\* C26: the extraction history is append-only: every ensemble_extract call
\* with at least one successful provider appends exactly one entry (text,
\* doc type, merged result, individual results) when it finishes, a call
\* with no successful provider appends nothing, and no step removes,
\* reorders or overwrites an entry.
C26_HistoryAppendOnly ==
    [][ IF epc = "collecting" /\ epc' = "done" /\ etask = "extract" /\ results # <<>>
        THEN /\ Len(extraction_history') = Len(extraction_history) + 1
             /\ SubSeq(extraction_history', 1, Len(extraction_history)) =
                    extraction_history
             /\ Last(extraction_history').text = EnsembleText
             /\ Last(extraction_history').doc_type = EnsembleDocType
             /\ Last(extraction_history').individual_results = results
             /\ Returned(Last(extraction_history').merged_result)
                    \in merge_extractions(results)
        ELSE extraction_history' = extraction_history ]_vars

-----------------------------------------------------------------------------
(***************************************************************************)
(* Properties of batch_classify (SpecBatch).                               *)
(***************************************************************************)
\* no provider's classification was accepted in the request just finished
NoProviderAccepted == \A i \in 1..Len(verdicts) : verdicts[i] # "accepted"

\* C28: batch_classify over n documents returns exactly n results in
\* document order: the batch never aborts, the result of the i-th document
\* is appended at position i and leaves the earlier results as they were,
\* and a document for which every provider fails or is rejected yields
\* ("unknown", 0.0).
C28_BatchKeepsOrderAndSentinel ==
    /\ [](bpc # "raised")
    /\ [](Len(batch_results) = bpos - 1)
    /\ [](bpc = "done" => Len(batch_results) = Len(documents))
    /\ [][ IF bpc = "classifying" /\ bpc' = "loop"
           THEN /\ text = Sample(DocText(documents[bpos]))
                /\ Len(batch_results') = bpos
                /\ SubSeq(batch_results', 1, bpos - 1) = batch_results
                /\ batch_results'[bpos] = <<outcome.val[1], outcome.val[2]>>
                /\ NoProviderAccepted => batch_results'[bpos] = <<Str("unknown"), 0>>
           ELSE bpc # "idle" => batch_results' = batch_results ]_vars

\* a finished batch of two documents: no provider classified the first, the
\* second was classified as an invoice
C28_Witness ==
    /\ bpc = "done"
    /\ Len(documents) = 2
    /\ batch_results[1] = <<Str("unknown"), 0>>
    /\ batch_results[2][1] = Str("invoice")
    /\ ~NoProviderAccepted

-----------------------------------------------------------------------------
(***************************************************************************)
(* Properties of FieldExtractor.extract (SpecExtract).                     *)
(***************************************************************************)
\* C30: extract returns an empty mapping without invoking any provider when
\* the document type has no extraction prompt: the orchestrator is not
\* entered, no provider is invoked and no remote call is started.  The
\* "unknown" sentinel of classify_with_fallback is such a document type.
C30_NoPromptNoProviderCall ==
    /\ PromptOf(Sentinel("classify")[1]) = Null
    /\ (xpc \in {"extracting", "done"} /\ PromptOf(xdoc_type) = Null) =>
           /\ xpc = "done"
           /\ xout = Returned(EmptyDict)
           /\ pc = "idle"
           /\ invoked = <<>>
           /\ inflight = {}

\* extract has returned for the "unknown" sentinel on an extractor whose
\* three providers are all available
C30_Witness ==
    /\ xpc = "done"
    /\ xdoc_type = Sentinel("classify")[1]
    /\ xout = Returned(EmptyDict)
    /\ clients = ProviderIds

-----------------------------------------------------------------------------
(***************************************************************************)
(* Properties of merge_extractions (SpecMerge).                            *)
(***************************************************************************)
AllKeys(rs) == UNION {DOMAIN rs[i] : i \in 1..Len(rs)}

\* C8: merge_extractions of a list holding exactly one result returns that
\* result unchanged (same keys, same values, null and list values included);
\* of the empty list it returns the empty mapping.
C8_MergeIdentity ==
    mpc = "out" =>
        /\ Len(minput) = 0 => mout = Returned(EmptyDict)
        /\ Len(minput) = 1 => mout = Returned(minput[1])

\* a single result whose list value repeats an element comes back as it is
C8_Witness ==
    /\ mpc = "out"
    /\ minput = <<[f |-> List(<<Str("a"), Str("a")>>)]>>
    /\ mout = Returned([f |-> List(<<Str("a"), Str("a")>>)])

\* C9: for a field whose first non-null contribution is numeric, the merged
\* value is the arithmetic mean of all numeric contributions for that field
\* (nulls excluded).  A bool counts as numeric here, as it does in Python.
C9_NumericMean ==
    mpc = "out" =>
        \A key \in AllKeys(minput) :
            LET values == ValuesOf(minput, key)
                nums == SelectSeq(values, IsNumber)
            IN  (values # <<>> /\ values[1].t = "num") =>
                    /\ mout.kind = "return"
                    /\ mout.val[key] = Div(SumSeq(nums), Len(nums))

\* C10: for a field whose first non-null contribution is a list, merging two
\* or more results gives the distinct elements of every contributed list,
\* each once.
C10_ListUnion ==
    (mpc = "out" /\ Len(minput) >= 2) =>
        \A key \in AllKeys(minput) :
            LET values == ValuesOf(minput, key)
                lists == SelectSeq(values, LAMBDA v : v.t = "list")
            IN  (values # <<>> /\ values[1].t = "list") =>
                    /\ mout.kind = "return"
                    /\ mout.val[key].t = "list"
                    /\ Range(mout.val[key].items) =
                           UNION {Range(lists[i].items) : i \in 1..Len(lists)}
                    /\ \A i, j \in 1..Len(mout.val[key].items) :
                           i # j => mout.val[key].items[i] # mout.val[key].items[j]

\* C11: for a field whose first non-null contribution is text, the merged
\* value is the most frequent exact string among the contributions; among
\* strings that tie for the highest count the one met first in result order
\* wins (["invoice", "invoice", "contract"] gives "invoice").
C11_TextVote ==
    (mpc = "out" /\ Len(minput) >= 2) =>
        \A key \in AllKeys(minput) :
            LET values == ValuesOf(minput, key)
                strings == SelectSeq(values, LAMBDA v : v.t = "str")
            IN  (values # <<>> /\ values[1].t = "str") =>
                    /\ mout.kind = "return"
                    /\ \E i \in 1..Len(strings) :
                          /\ mout.val[key] = strings[i]
                          /\ \A j \in 1..Len(strings) :
                                 Count(strings, strings[j]) <= Count(strings, strings[i])
                          /\ \A j \in 1..(i - 1) :
                                 Count(strings, strings[j]) < Count(strings, strings[i])

\* C22: for two or more results, the key set of the mapping merge_extractions
\* returns is the union of the key sets of all input results, and a field
\* for which every result gives null or nothing is present with value null.
C22_KeySetIsUnion ==
    (mpc = "out" /\ Len(minput) >= 2 /\ mout.kind = "return") =>
        /\ DOMAIN mout.val = UNION {DOMAIN minput[i] : i \in 1..Len(minput)}
        /\ \A i \in 1..Len(minput) : \A key \in DOMAIN minput[i] :
               (\A j \in 1..Len(minput) :
                    key \in DOMAIN minput[j] => minput[j][key] = Null)
                   => (key \in DOMAIN mout.val /\ mout.val[key] = Null)

\* "g" is null in one result and missing from the other, "f" only in one
C22_Witness ==
    /\ mpc = "out"
    /\ minput = <<[f |-> Num(10), g |-> Null], [f |-> Num(20)]>>
    /\ mout = Returned([f |-> Num(15), g |-> Null])

\* C23: merge_extractions dispatches on the type of the first non-null value
\* in result order; for a field whose first non-null contribution is neither
\* numeric, list nor text (an object or a boolean) the merged value is that
\* first non-null contribution, unchanged.
C23_OtherTypesKeepFirst ==
    (mpc = "out" /\ Len(minput) >= 2) =>
        \A key \in AllKeys(minput) :
            LET values == ValuesOf(minput, key)
            IN  (values # <<>> /\ values[1].t \in {"obj", "bool"}) =>
                    /\ mout.kind = "return"
                    /\ mout.val[key] = values[1]

\* the results in another completion order
Reorder(rs, p) == [i \in 1..Len(rs) |-> rs[p[i]]]

\* for each field, all non-null contributions have the same type
SameTypes(rs) ==
    \A key \in AllKeys(rs) :
        LET values == ValuesOf(rs, key)
        IN  \A i, j \in 1..Len(values) : values[i].t = values[j].t

\* for each field, the text contributions have a unique most frequent value
UniqueMostFrequent(rs) ==
    \A key \in AllKeys(rs) :
        LET values == SelectSeq(ValuesOf(rs, key), LAMBDA v : v.t = "str")
        IN  \A i, j \in 1..Len(values) :
                (/\ \A k \in 1..Len(values) : Count(values, values[k]) <= Count(values, values[i])
                 /\ \A k \in 1..Len(values) : Count(values, values[k]) <= Count(values, values[j]))
                    => values[i] = values[j]

\* an outcome with each list value replaced by the set of its items
ListsAsSets(o) ==
    IF o.kind = "return"
    THEN Returned([key \in DOMAIN o.val |->
                      IF o.val[key].t = "list"
                      THEN [t |-> "set", items |-> Range(o.val[key].items)]
                      ELSE o.val[key]])
    ELSE o

-----------------------------------------------------------------------------
(***************************************************************************)
(* Properties of the provider adapters (SpecAdapter).                      *)
(***************************************************************************)
\* the tokens from the first "{" to the last "}" of the raw reply
BraceSpan(s) ==
    IF \E i, j \in 1..Len(s) : i < j /\ s[i] = "{" /\ s[j] = "}"
    THEN SubSeq(s, Find(s, "{") + 1, RFind(s, "}") + 1)
    ELSE <<>>

\* C24: every adapter (openai, gemini, ollama) recovers leniently: when the
\* raw reply holds a valid JSON object surrounded by other text it returns
\* the parse of the span from the first "{" to the last "}", and it fails
\* only when that span does not parse.
C24_LenientRecovery ==
    apc = "out" =>
        /\ JsonLoads(BraceSpan(raw)).kind = "return" => aout = JsonLoads(BraceSpan(raw))
        /\ aout.kind = "raise" => JsonLoads(BraceSpan(raw)).kind = "raise"

=============================================================================
